---- MODULE Spec2Model ----
(***************************************************************************)
(* Model of cratis-core/src/config.rs: the typed configuration schema, the *)
(* YAML deserialisation derived for it, the process-wide write-once cell   *)
(* CONFIG, and the two operations load_config and get_config.              *)
(*                                                                         *)
(* Every failure in the source is a panic raised by an expect(); the panic *)
(* unwinds the calling thread only, so other threads (and a caller that    *)
(* catches the unwind) keep calling.  A panic is recorded as the result of *)
(* the call, with the name the specification gives to the failure and the  *)
(* text fragments that the panic message contains.                         *)
(***************************************************************************)
EXTENDS Integers, Sequences, FiniteSets, TLC

\* ------------------------------------------------------------------ bounds
NumThreads == 2
MaxCalls == 4

Threads == 1..NumThreads

\* ------------------------------------------------------- Option<T> values
None == [some |-> FALSE]
Some(x) == [some |-> TRUE, v |-> x]

\* ----------------------------------------------------- scalar conversions
\* YAML scalars are text; the deserialiser converts them to the field type.
UIntTable == [t \in {"0", "3", "60", "512"} |->
                CASE t = "0" -> 0 [] t = "3" -> 3 [] t = "60" -> 60 [] t = "512" -> 512]

BoolTable == [t \in {"true", "false"} |-> (t = "true")]

\* {:?} rendering of an unsigned integer
UIntText(n) == CHOOSE t \in DOMAIN UIntTable : UIntTable[t] = n

\* a failed conversion: the fragments serde_yaml puts in its error message
Bad(frags) == [ok |-> FALSE, frags |-> frags]
Good(x) == [ok |-> TRUE, value |-> x]

\* mutant: the variant identifier is lower-cased before it is compared
BackupMode_caseless(token) ==
    IF token \in {"full", "Full", "FULL"} THEN Good("Full")
    ELSE IF token \in {"incremental", "Incremental", "INCREMENTAL"} THEN Good("Incremental")
    ELSE Bad({"unknown variant", token, "expected one of", "full", "incremental"})

\* #[serde(rename_all = "lowercase")] enum BackupMode { Full, Incremental }
\* the variant identifier is compared with the renamed names as written
BackupMode(token) ==
    IF token = "full" THEN Good("Full")
    ELSE IF token = "incremental" THEN Good("Incremental")
    ELSE Bad({"unknown variant", token, "expected one of", "full", "incremental"})

DeUInt(token) ==
    IF token \in DOMAIN UIntTable THEN Good(UIntTable[token])
    ELSE Bad({"invalid type", token, "expected unsigned integer"})

DeBool(token) ==
    IF token \in DOMAIN BoolTable THEN Good(BoolTable[token])
    ELSE Bad({"invalid type", token, "expected a boolean"})

\* mutant: the optional field is skipped by the deserialiser
OptField_skipped(m, k) == None

\* Option<T> field: an absent key deserialises to None
OptField(m, k) == IF k \in DOMAIN m THEN Some(m[k]) ELSE None

OptUInt(m, k) ==
    IF k \notin DOMAIN m THEN Good(None)
    ELSE IF DeUInt(m[k]).ok THEN Good(Some(DeUInt(m[k]).value))
    ELSE DeUInt(m[k])

OptBool(m, k) ==
    IF k \notin DOMAIN m THEN Good(None)
    ELSE IF DeBool(m[k]).ok THEN Good(Some(DeBool(m[k]).value))
    ELSE DeBool(m[k])

Missing(k) == Bad({"missing field", k})

\* ------------------------------------------------------ derived Deserialize
\* The derived visitor reports the first defect it meets in document order;
\* the documents below have at most one defect, so the fields are examined
\* here in declaration order.
ClientConfig(m) ==
    IF "id" \notin DOMAIN m THEN Missing("id")
    ELSE IF "name" \notin DOMAIN m THEN Missing("name")
    ELSE Good([id |-> m.id, name |-> m.name])

BackupConfig(m) ==
    IF "mode" \notin DOMAIN m THEN Missing("mode")
    ELSE IF ~BackupMode(m.mode).ok THEN BackupMode(m.mode)
    ELSE IF "watch_directories" \notin DOMAIN m THEN Missing("watch_directories")
    ELSE IF ~OptUInt(m, "interval_seconds").ok THEN OptUInt(m, "interval_seconds")
    ELSE Good([mode |-> BackupMode(m.mode).value,
               watch_directories |-> m.watch_directories,
               exclude |-> OptField(m, "exclude"),
               interval_seconds |-> OptUInt(m, "interval_seconds").value])

\* mutant: auth_token falls back to the empty string when it is absent
ServerConfig_defaulted(m) ==
    IF "address" \notin DOMAIN m THEN Missing("address")
    ELSE Good([address |-> m.address,
               auth_token |-> IF "auth_token" \in DOMAIN m THEN m.auth_token ELSE ""])

ServerConfig(m) ==
    IF "address" \notin DOMAIN m THEN Missing("address")
    ELSE IF "auth_token" \notin DOMAIN m THEN Missing("auth_token")
    ELSE Good([address |-> m.address, auth_token |-> m.auth_token])

AdvancedConfig(m) ==
    IF ~OptUInt(m, "max_file_size_mb").ok THEN OptUInt(m, "max_file_size_mb")
    ELSE IF ~OptUInt(m, "retry_attempts").ok THEN OptUInt(m, "retry_attempts")
    ELSE IF ~OptUInt(m, "retry_delay_seconds").ok THEN OptUInt(m, "retry_delay_seconds")
    ELSE IF ~OptBool(m, "enable_notifications").ok THEN OptBool(m, "enable_notifications")
    ELSE Good([max_file_size_mb |-> OptUInt(m, "max_file_size_mb").value,
               retry_attempts |-> OptUInt(m, "retry_attempts").value,
               retry_delay_seconds |-> OptUInt(m, "retry_delay_seconds").value,
               enable_notifications |-> OptBool(m, "enable_notifications").value])

CratisConfig(m) ==
    IF "client" \notin DOMAIN m THEN Missing("client")
    ELSE IF ~ClientConfig(m.client).ok THEN ClientConfig(m.client)
    ELSE IF "backup" \notin DOMAIN m THEN Missing("backup")
    ELSE IF ~BackupConfig(m.backup).ok THEN BackupConfig(m.backup)
    ELSE IF "server" \notin DOMAIN m THEN Missing("server")
    ELSE IF ~ServerConfig(m.server).ok THEN ServerConfig(m.server)
    ELSE IF "advanced" \in DOMAIN m /\ ~AdvancedConfig(m.advanced).ok
         THEN AdvancedConfig(m.advanced)
    ELSE Good([client |-> ClientConfig(m.client).value,
               backup |-> BackupConfig(m.backup).value,
               server |-> ServerConfig(m.server).value,
               advanced |-> IF "advanced" \in DOMAIN m
                            THEN Some(AdvancedConfig(m.advanced).value)
                            ELSE None])

\* serde_yaml::from_str: text that is not YAML fails in the scanner, which
\* reports a position and a description but none of the text
from_str(text) ==
    IF ~text.yaml THEN Bad({"did not find expected node content"})
    ELSE CratisConfig(text.root)

\* ------------------------------------------------- {:?} of the schema types
\* #[derive(Debug)]: the rendering prints every field of the value
RECURSIVE SeqStrings(_)
SeqStrings(q) == IF q = <<>> THEN {} ELSE {Head(q)} \cup SeqStrings(Tail(q))

OptUIntDebug(o) == IF o.some THEN {UIntText(o.v)} ELSE {"None"}

AdvancedDebug(a) ==
    OptUIntDebug(a.max_file_size_mb) \cup OptUIntDebug(a.retry_attempts)
      \cup OptUIntDebug(a.retry_delay_seconds)
      \cup (IF a.enable_notifications.some
            THEN {IF a.enable_notifications.v THEN "true" ELSE "false"}
            ELSE {"None"})

CratisConfigDebug(c) ==
    {"CratisConfig", c.client.id, c.client.name, c.backup.mode,
     c.server.address, c.server.auth_token}
      \cup SeqStrings(c.backup.watch_directories)
      \cup (IF c.backup.exclude.some THEN SeqStrings(c.backup.exclude.v) ELSE {"None"})
      \cup OptUIntDebug(c.backup.interval_seconds)
      \cup (IF c.advanced.some THEN AdvancedDebug(c.advanced.v) ELSE {"None"})

\* ------------------------------------------------------------- the files
ExampleDoc ==
    [client |-> [id |-> "c1", name |-> "laptop"],
     backup |-> [mode |-> "full", watch_directories |-> <<"/home/user/docs">>],
     server |-> [address |-> "backup.example.com:9000", auth_token |-> "secret123"]]

FullDoc ==
    [client |-> [id |-> "c2", name |-> "desktop"],
     backup |-> [mode |-> "incremental",
                 watch_directories |-> <<"/srv/b", "/srv/a">>,
                 exclude |-> <<"*.tmp">>,
                 interval_seconds |-> "60"],
     server |-> [address |-> "10.0.0.2:9000", auth_token |-> "hunter2"],
     advanced |-> [max_file_size_mb |-> "512", enable_notifications |-> "false"]]

NoTokenDoc == [ExampleDoc EXCEPT !.server = [address |-> "backup.example.com:9000"]]

WeeklyDoc == [ExampleDoc EXCEPT !.backup.mode = "weekly"]

UpperDoc == [ExampleDoc EXCEPT !.backup.mode = "Full"]

Yaml(doc) == [yaml |-> TRUE, root |-> doc]

\* the file system: a path outside the domain cannot be read
FS == [p \in {"example.yaml", "full.yaml", "notoken.yaml", "weekly.yaml",
              "upper.yaml", "garbage.yaml"} |->
         CASE p = "example.yaml" -> Yaml(ExampleDoc)
           [] p = "full.yaml" -> Yaml(FullDoc)
           [] p = "notoken.yaml" -> Yaml(NoTokenDoc)
           [] p = "weekly.yaml" -> Yaml(WeeklyDoc)
           [] p = "upper.yaml" -> Yaml(UpperDoc)
           [] p = "garbage.yaml" -> [yaml |-> FALSE, root |-> [client |-> "{"]]]

Paths == DOMAIN FS \cup {"absent.yaml"}

\* std::fs::read_to_string
read_to_string(p) ==
    IF p \in DOMAIN FS THEN Good(FS[p]) ELSE Bad({"Os", "NotFound", "No such file or directory"})

\* --------------------------------------------------------- OnceCell<T>
\* mutant: the cell is an ordinary slot that every set replaces
set_overwrite(cell, value) == [cell |-> Some(value), res |-> Good("unit")]

\* mutant: a set on a taken cell is dropped without an error
set_silent(cell, value) ==
    [cell |-> IF cell.some THEN cell ELSE Some(value), res |-> Good("unit")]

\* OnceCell::set: stores into an empty cell, hands the value back otherwise
set(cell, value) ==
    IF cell.some THEN [cell |-> cell, res |-> Bad(CratisConfigDebug(value))]
    ELSE [cell |-> Some(value), res |-> Good("unit")]

\* mutant: an empty cell answers with a built-in configuration
get_or_default(cell) ==
    IF cell.some THEN cell ELSE Some(CratisConfig(ExampleDoc).value)

\* OnceCell::get: the stored value, if any
get(cell) == cell

\* ------------------------------------------------------------- the state
\* CONFIG              the static OnceCell<CratisConfig>
\* pc[t]               where thread t stands: idle, or before line 64 (parse),
\*                     before line 65 (set), before the expect of line 83
\* path, contents, parsed, got
\*                     the parameter and locals of the call thread t is in
\* result[t]           how the last call of thread t ended (Pending while a
\*                     call is in progress)
\* calls               number of calls started, capped by MaxCalls
\* occupied[t]         history: whether CONFIG held a value when the call of
\*                     thread t started
\* writes              history: every store into CONFIG, in order
VARIABLES CONFIG, pc, path, contents, parsed, got, result, calls, occupied, writes

vars == <<CONFIG, pc, path, contents, parsed, got, result, calls, occupied, writes>>

NoText == [yaml |-> FALSE, root |-> [client |-> ""]]
NoPath == ""
Pending == [op |-> "none", err |-> "none", msg |-> {}, value |-> None]

\* a call that returned normally
Returned(op, v) == [op |-> op, err |-> "none", msg |-> {}, value |-> v]

\* Result::expect / Option::expect failing: the panic message is the given
\* text followed by the {:?} rendering of the error value
Panicked(op, err, text, debug) ==
    [op |-> op, err |-> err, msg |-> {text} \cup debug, value |-> None]

Init ==
    /\ CONFIG = None
    /\ pc = [t \in Threads |-> "idle"]
    /\ path = [t \in Threads |-> NoPath]
    /\ contents = [t \in Threads |-> NoText]
    /\ parsed = [t \in Threads |-> None]
    /\ got = [t \in Threads |-> None]
    /\ result = [t \in Threads |-> Pending]
    /\ calls = 0
    /\ occupied = [t \in Threads |-> FALSE]
    /\ writes = <<>>

\* mutant: the cell is examined before the file is read
load_config_read_guarded(t, p) ==
    /\ pc[t] = "idle"
    /\ calls < MaxCalls
    /\ calls' = calls + 1
    /\ path' = [path EXCEPT ![t] = p]
    /\ occupied' = [occupied EXCEPT ![t] = CONFIG.some]
    /\ IF CONFIG.some
       THEN /\ result' = [result EXCEPT ![t] =
                  Panicked("load", "AlreadyInitializedError",
                           "Config already initialized", {})]
            /\ UNCHANGED <<contents, pc>>
       ELSE IF read_to_string(p).ok
       THEN /\ contents' = [contents EXCEPT ![t] = read_to_string(p).value]
            /\ pc' = [pc EXCEPT ![t] = "parse"]
            /\ result' = [result EXCEPT ![t] = Pending]
       ELSE /\ result' = [result EXCEPT ![t] =
                  Panicked("load", "FileReadError", "Failed to read config file",
                           read_to_string(p).frags)]
            /\ UNCHANGED <<contents, pc>>
    /\ UNCHANGED <<CONFIG, parsed, got, writes>>

\* load_config, line 63: read the file, panic if it cannot be read
load_config_read(t, p) ==
    /\ pc[t] = "idle"
    /\ calls < MaxCalls
    /\ calls' = calls + 1
    /\ path' = [path EXCEPT ![t] = p]
    /\ occupied' = [occupied EXCEPT ![t] = CONFIG.some]
    /\ IF read_to_string(p).ok
       THEN /\ contents' = [contents EXCEPT ![t] = read_to_string(p).value]
            /\ pc' = [pc EXCEPT ![t] = "parse"]
            /\ result' = [result EXCEPT ![t] = Pending]
       ELSE /\ result' = [result EXCEPT ![t] =
                  Panicked("load", "FileReadError", "Failed to read config file",
                           read_to_string(p).frags)]
            /\ UNCHANGED <<contents, pc>>
    /\ UNCHANGED <<CONFIG, parsed, got, writes>>

\* load_config, line 64: parse the text, panic if it does not fit the schema
load_config_parse(t) ==
    /\ pc[t] = "parse"
    /\ contents' = [contents EXCEPT ![t] = NoText]
    /\ IF from_str(contents[t]).ok
       THEN /\ parsed' = [parsed EXCEPT ![t] = Some(from_str(contents[t]).value)]
            /\ pc' = [pc EXCEPT ![t] = "set"]
            /\ UNCHANGED result
       ELSE /\ result' = [result EXCEPT ![t] =
                  Panicked("load", "ParseError", "Invalid config format",
                           from_str(contents[t]).frags)]
            /\ pc' = [pc EXCEPT ![t] = "idle"]
            /\ UNCHANGED parsed
    /\ UNCHANGED <<CONFIG, path, got, calls, occupied, writes>>

\* load_config, line 65: store the value, panic if the cell is taken
load_config_set(t) ==
    /\ pc[t] = "set"
    /\ CONFIG' = set(CONFIG, parsed[t].v).cell
    /\ IF set(CONFIG, parsed[t].v).res.ok
       THEN /\ result' = [result EXCEPT ![t] = Returned("load", None)]
            /\ writes' = Append(writes, [thread |-> t, path |-> path[t],
                                         value |-> parsed[t].v])
       ELSE /\ result' = [result EXCEPT ![t] =
                  Panicked("load", "AlreadyInitializedError",
                           "Config already initialized",
                           set(CONFIG, parsed[t].v).res.frags)]
            /\ UNCHANGED writes
    /\ parsed' = [parsed EXCEPT ![t] = None]
    /\ pc' = [pc EXCEPT ![t] = "idle"]
    /\ UNCHANGED <<path, contents, got, calls, occupied>>

\* get_config, line 83: CONFIG.get()
get_config_get(t) ==
    /\ pc[t] = "idle"
    /\ calls < MaxCalls
    /\ calls' = calls + 1
    /\ path' = [path EXCEPT ![t] = NoPath]
    /\ occupied' = [occupied EXCEPT ![t] = CONFIG.some]
    /\ got' = [got EXCEPT ![t] = get(CONFIG)]
    /\ pc' = [pc EXCEPT ![t] = "expect"]
    /\ result' = [result EXCEPT ![t] = Pending]
    /\ UNCHANGED <<CONFIG, contents, parsed, writes>>

\* get_config, line 83: .expect("Config not initialized")
get_config_expect(t) ==
    /\ pc[t] = "expect"
    /\ result' = [result EXCEPT ![t] =
           IF got[t].some THEN Returned("get", got[t])
           ELSE Panicked("get", "NotInitializedError", "Config not initialized", {})]
    /\ got' = [got EXCEPT ![t] = None]
    /\ pc' = [pc EXCEPT ![t] = "idle"]
    /\ UNCHANGED <<CONFIG, path, contents, parsed, calls, occupied, writes>>

Next ==
    \/ \E t \in Threads, p \in Paths : load_config_read(t, p)
    \/ \E t \in Threads : load_config_parse(t)
    \/ \E t \in Threads : load_config_set(t)
    \/ \E t \in Threads : get_config_get(t)
    \/ \E t \in Threads : get_config_expect(t)

Spec == Init /\ [][Next]_vars

\* =================================================================== claims
\* Sets of paths by what the files hold, written out from the documents.
SchemaPaths == {"example.yaml", "full.yaml"}
UnreadablePaths == {"absent.yaml"}
InvalidPaths == {"notoken.yaml", "weekly.yaml", "upper.yaml", "garbage.yaml"}
\* documents that are complete and well typed whatever their mode token is
ModeOnlyPaths == {"example.yaml", "full.yaml", "weekly.yaml", "upper.yaml"}

Secrets == {"secret123", "hunter2"}

Lower(token) ==
    CASE token = "Full" -> "full"
      [] token = "FULL" -> "full"
      [] token = "Incremental" -> "incremental"
      [] token = "INCREMENTAL" -> "incremental"
      [] OTHER -> token

Variant(token) == IF token = "full" THEN "Full" ELSE "Incremental"

Opt(m, k) == IF k \in DOMAIN m THEN Some(m[k]) ELSE None
OptNum(m, k) == IF k \in DOMAIN m THEN Some(UIntTable[m[k]]) ELSE None
OptFlag(m, k) == IF k \in DOMAIN m THEN Some(m[k] = "true") ELSE None

\* cfg carries exactly the values of document doc
RoundTrip(doc, cfg) ==
    /\ cfg.client.id = doc.client.id
    /\ cfg.client.name = doc.client.name
    /\ cfg.backup.mode = Variant(doc.backup.mode)
    /\ cfg.backup.watch_directories = doc.backup.watch_directories
    /\ cfg.backup.exclude = Opt(doc.backup, "exclude")
    /\ cfg.backup.interval_seconds = OptNum(doc.backup, "interval_seconds")
    /\ cfg.server.address = doc.server.address
    /\ cfg.server.auth_token = doc.server.auth_token
    /\ cfg.advanced.some = ("advanced" \in DOMAIN doc)
    /\ "advanced" \in DOMAIN doc =>
         /\ cfg.advanced.v.max_file_size_mb = OptNum(doc.advanced, "max_file_size_mb")
         /\ cfg.advanced.v.retry_attempts = OptNum(doc.advanced, "retry_attempts")
         /\ cfg.advanced.v.retry_delay_seconds = OptNum(doc.advanced, "retry_delay_seconds")
         /\ cfg.advanced.v.enable_notifications = OptFlag(doc.advanced, "enable_notifications")

LoadDone(t) == result[t].op = "load"
GetDone(t) == result[t].op = "get"
Failed(t, e) == result[t].err = e
\* thread t takes a step of get_config
GetStep(t) == pc[t] # pc'[t] /\ (pc[t] = "expect" \/ pc'[t] = "expect")
\* thread t completes a call of load_config
LoadReturns(t) == result'[t] # result[t] /\ result'[t].op = "load"

\* C1: once a load has succeeded the stored value is never changed and the
\* holder never becomes empty again; every get that returns, returns the
\* value stored by the first successful load.
C1_WriteOnce ==
    /\ [][CONFIG.some => CONFIG' = CONFIG]_vars
    /\ [](\A t \in Threads : (GetDone(t) /\ Failed(t, "none")) =>
            (writes # <<>> /\ result[t].value = Some(writes[1].value)))

C1_Witness ==
    \E t, u \in Threads :
        /\ GetDone(t) /\ Failed(t, "none") /\ occupied[t]
        /\ Failed(u, "AlreadyInitializedError")
        /\ result[t].value = Some(writes[1].value)

\* C2: a load of a readable, schema-valid document on a holder that already
\* has a value fails with AlreadyInitializedError and the stored value stays
\* the one that was stored first.
C2_SecondLoadRejected ==
    \A t \in Threads :
        (LoadDone(t) /\ path[t] \in SchemaPaths /\ occupied[t]) =>
            /\ Failed(t, "AlreadyInitializedError")
            /\ Len(writes) = 1
            /\ CONFIG = Some(writes[1].value)

C2_Witness ==
    \E t \in Threads :
        /\ LoadDone(t) /\ occupied[t] /\ Failed(t, "AlreadyInitializedError")
        /\ path[t] = "example.yaml" /\ writes[1].path = "example.yaml"

\* C3: a get on an empty holder fails with NotInitializedError, and no step
\* of get changes the holder.
C3_GetBeforeLoad ==
    /\ [](\A t \in Threads : (GetDone(t) /\ ~occupied[t]) =>
            Failed(t, "NotInitializedError"))
    /\ [][\A t \in Threads : GetStep(t) => CONFIG' = CONFIG]_vars

C3_Witness ==
    \E t, u \in Threads :
        /\ GetDone(t) /\ ~occupied[t] /\ Failed(t, "NotInitializedError")
        /\ LoadDone(u) /\ Failed(u, "ParseError")
        /\ ~CONFIG.some

\* C4: a load that fails with FileReadError or ParseError leaves the holder
\* as it was; a document without server.auth_token and a document with mode
\* weekly fail with ParseError; a get never returns a partial configuration.
C4_FailedLoadLeavesHolder ==
    /\ [][\A t \in Threads : LoadReturns(t) =>
            /\ result'[t].err \in {"FileReadError", "ParseError"} =>
                 (CONFIG' = CONFIG /\ writes' = writes)
            /\ path'[t] \in {"notoken.yaml", "weekly.yaml"} =>
                 result'[t].err = "ParseError"]_vars
    /\ [](\A t \in Threads : (GetDone(t) /\ Failed(t, "none")) =>
            \E p \in SchemaPaths : RoundTrip(FS[p].root, result[t].value.v))

C4_Witness ==
    \E t, u \in Threads :
        /\ LoadDone(t) /\ Failed(t, "ParseError") /\ path[t] = "notoken.yaml"
        /\ GetDone(u) /\ Failed(u, "NotInitializedError")
        /\ ~CONFIG.some

\* C5: the auth_token of a document never appears in the failure message of
\* a load or a get.
C5_NoSecretInMessages ==
    \A t \in Threads : ~Failed(t, "none") => result[t].msg \cap Secrets = {}

\* C6: a load of a schema-matching document on an empty holder succeeds and
\* stores exactly the document's values, and a get that follows returns them.
C6_RoundTrip ==
    /\ [](\A t \in Threads : (LoadDone(t) /\ path[t] \in SchemaPaths) =>
            ~(result[t].err \in {"FileReadError", "ParseError"}))
    /\ [][\A t \in Threads :
            (pc[t] = "set" /\ pc'[t] = "idle" /\ ~CONFIG.some) =>
                /\ result'[t].err = "none"
                /\ CONFIG'.some
                /\ RoundTrip(FS[path[t]].root, CONFIG'.v)]_vars
    /\ [](\A t \in Threads : (GetDone(t) /\ Failed(t, "none")) =>
            /\ writes # <<>>
            /\ RoundTrip(FS[writes[1].path].root, result[t].value.v))

C6_Witness ==
    \E t \in Threads :
        /\ GetDone(t) /\ Failed(t, "none")
        /\ writes[1].thread = t /\ writes[1].path = "full.yaml"
        /\ result[t].value.v.backup.watch_directories = <<"/srv/b", "/srv/a">>
        /\ result[t].value.v.backup.exclude = Some(<<"*.tmp">>)
        /\ result[t].value.v.advanced.v.retry_attempts = None

\* C7 as stated: any casing of full or incremental loads as the variant.
C7_CaseInsensitive ==
    \A t \in Threads :
        (LoadDone(t) /\ path[t] \in ModeOnlyPaths
           /\ Lower(FS[path[t]].root.backup.mode) \in {"full", "incremental"}) =>
            ~Failed(t, "ParseError")

\* C7 amended: the mode token is matched exactly against full and
\* incremental; these two load as the corresponding variant and every other
\* token, other casings included, makes load fail with ParseError.
C7_ExactMatch ==
    /\ \A t \in Threads : (LoadDone(t) /\ path[t] \in ModeOnlyPaths) =>
          (Failed(t, "ParseError") <=>
             FS[path[t]].root.backup.mode \notin {"full", "incremental"})
    /\ \A t \in Threads : pc[t] = "set" =>
          /\ FS[path[t]].root.backup.mode \in {"full", "incremental"}
          /\ parsed[t].v.backup.mode = Variant(FS[path[t]].root.backup.mode)

C7_Witness ==
    \E t, u \in Threads :
        /\ LoadDone(t) /\ path[t] = "upper.yaml" /\ Failed(t, "ParseError")
        /\ pc[u] = "set" /\ path[u] = "full.yaml"
        /\ parsed[u].v.backup.mode = "Incremental"

\* C8: gets issued after a load has succeeded all succeed and all see the
\* stored value, whatever the other threads do meanwhile.
C8_ConcurrentGets ==
    /\ \A t \in Threads : (pc[t] = "expect" /\ occupied[t]) => got[t] = CONFIG
    /\ \A t \in Threads : (GetDone(t) /\ occupied[t]) =>
          (Failed(t, "none") /\ result[t].value = CONFIG)
    /\ \A t, u \in Threads :
          (GetDone(t) /\ occupied[t] /\ GetDone(u) /\ occupied[u]) =>
              result[t].value = result[u].value

C8_Witness ==
    \E t, u \in Threads :
        /\ t # u
        /\ pc[t] = "expect" /\ occupied[t] /\ got[t].some
        /\ pc[u] = "expect" /\ occupied[u] /\ got[u] = got[t]

\* C9: of the loads of schema-valid documents that race on an empty holder
\* exactly one stores its value and returns; every other one fails with
\* AlreadyInitializedError; the holder and every get show the winner's value.
C9_OneWinner ==
    /\ Len(writes) <= 1
    /\ \A t \in Threads : (LoadDone(t) /\ path[t] \in SchemaPaths) =>
          /\ Len(writes) = 1
          /\ CONFIG = Some(writes[1].value)
          /\ \/ Failed(t, "none") /\ writes[1].thread = t /\ writes[1].path = path[t]
             \/ Failed(t, "AlreadyInitializedError")
    /\ \A t \in Threads : (GetDone(t) /\ Failed(t, "none")) =>
          (writes # <<>> /\ result[t].value = Some(writes[1].value))

C9_Witness ==
    \E t, u \in Threads :
        /\ t # u /\ ~occupied[t] /\ ~occupied[u]
        /\ LoadDone(t) /\ Failed(t, "none") /\ path[t] = "example.yaml"
        /\ LoadDone(u) /\ Failed(u, "AlreadyInitializedError") /\ path[u] = "full.yaml"
        /\ CONFIG.v.client.name = "laptop"

\* C10: load reports FileReadError for an unreadable path and ParseError for
\* an invalid document whether or not the holder has a value, and reports
\* AlreadyInitializedError only for a file that was read and parsed.
C10_CheckOrder ==
    \A t \in Threads : LoadDone(t) =>
        /\ path[t] \in UnreadablePaths => Failed(t, "FileReadError")
        /\ path[t] \in InvalidPaths => Failed(t, "ParseError")
        /\ Failed(t, "AlreadyInitializedError") => path[t] \in SchemaPaths

C10_Witness ==
    \E t, u \in Threads :
        /\ LoadDone(t) /\ occupied[t] /\ Failed(t, "FileReadError")
        /\ LoadDone(u) /\ occupied[u] /\ Failed(u, "ParseError")

====
